---- MODULE Spec2Model ----
(***************************************************************************)
(* OAuth2SessionList (frontend/src/components/OAuth2SessionList.tsx).      *)
(*                                                                         *)
(* One mount of the list view over the connection                          *)
(*   oauth2Sessions(first: $count, after: $cursor) @connection(...)        *)
(* of one user.  The component's own code is the render function (one      *)
(* OAuth2Session per edge keyed by the edge's cursor, a "Load more" button *)
(* when hasNext) and the button's click handler loadNext(2).               *)
(*                                                                         *)
(* usePaginationFragment itself is imported from react-relay and is not    *)
(* part of this repository.  It is modelled here only as far as the        *)
(* fragment declares it: a request asks for `first` edges `after` a cursor,*)
(* and the edges of the answer accumulate in the connection.  While a      *)
(* request is in flight a further loadNext call starts no second request.  *)
(* Failed fetches, malformed answers and what a fetch does after the view  *)
(* has unmounted are not modelled: no line of the component handles them.  *)
(***************************************************************************)
EXTENDS Integers, Sequences, FiniteSets, TLC

\* ---- bounds -------------------------------------------------------------
\* most sessions a user owns
MaxSessions == 3
\* largest $count of the first page
MaxCount == 2
\* most clicks made while a request is in flight
MaxIgnored == 2

\* ---- program constant ---------------------------------------------------
\* onClick={() => loadNext(2)}
PageSize == 2

VARIABLES
    server,     \* the user's sessions as the server orders them: Seq of edges
    edges,      \* data.oauth2Sessions.edges
    hasNext,    \* hasNext as returned by usePaginationFragment
    inFlight,   \* the load-more request in flight: <<>> or <<[first, after]>>
    returned,   \* history: sum of the sizes of the pages returned so far
    ignored,    \* history: loadNext calls made while a request was in flight
    mounted,    \* the view is mounted
    view        \* what the component rendered last: [items, button]

vars == <<server, edges, hasNext, inFlight, returned, ignored, mounted, view>>

\* ---- helpers ------------------------------------------------------------
Min(a, b) == IF a < b THEN a ELSE b

\* the null cursor
NoCursor == 0

\* edges { cursor node { id } }
Edge(c) == [cursor |-> c, node |-> 10 + c]

\* sequences over S of length n without repetition
InjectiveSeqs(S, n) ==
    {s \in [1..n -> S] : \A i, j \in 1..n : i # j => s[i] # s[j]}

\* position of cursor c in the server's order, 0 for the null cursor
IndexOf(c) ==
    IF c = NoCursor THEN 0
    ELSE CHOOSE i \in 1..Len(server) : server[i].cursor = c

\* oauth2Sessions(first: $count, after: $cursor): the answer of the server
ServerPage(first, after) ==
    LET i == IndexOf(after)
        j == Min(i + first, Len(server))
    IN  [edges |-> SubSeq(server, i + 1, j), hasNextPage |-> j < Len(server)]

\* cursor of the last loaded edge, the $cursor of the next request
Cursor(es) == IF Len(es) = 0 THEN NoCursor ELSE es[Len(es)].cursor

\* ---- the connection -----------------------------------------------------
\* a page that replaces the loaded edges instead of extending them
ConnectionReplace(prev, page) == page

\* a page merged in front of the loaded edges
ConnectionPrepend(prev, page) == page \o prev

\* @connection(key: "OAuth2SessionList_user_oauth2Sessions"): the edges of a
\* page fetched after the last cursor extend the loaded edges
Connection(prev, page) == prev \o page

\* ---- the component ------------------------------------------------------
\* the button rendered whatever hasNext is
RenderAlways(data, hn) ==
    [items  |-> [i \in 1..Len(data) |->
                    [key |-> data[i].cursor, session |-> data[i].node]],
     button |-> TRUE]

\* items keyed by the node instead of the cursor
RenderKeyNode(data, hn) ==
    [items  |-> [i \in 1..Len(data) |->
                    [key |-> data[i].node, session |-> data[i].node]],
     button |-> hn]

\* the returned JSX: data.oauth2Sessions.edges.map((n) =>
\*   <OAuth2Session key={n.cursor} session={n.node} />) in edge order, then
\* hasNext ? <button onClick=...>Load more</button> : null
Render(data, hn) ==
    [items  |-> [i \in 1..Len(data) |->
                    [key |-> data[i].cursor, session |-> data[i].node]],
     button |-> hn]

\* nothing of the view is on screen
Unrendered == [items |-> <<>>, button |-> FALSE]

\* a request is in flight
isLoadingNext == inFlight # <<>>

\* loadNext(count) of usePaginationFragment: asks for `count` edges after the
\* last loaded cursor; starts nothing while a request is in flight
loadNext(count) ==
    IF isLoadingNext
    THEN /\ ignored < MaxIgnored
         /\ ignored' = ignored + 1
         /\ UNCHANGED inFlight
    ELSE /\ inFlight' = <<[first |-> count, after |-> Cursor(edges)]>>
         /\ UNCHANGED ignored

\* a click handler asking for no further edge
onClickZero ==
    /\ mounted
    /\ view.button
    /\ loadNext(0)
    /\ UNCHANGED <<server, edges, hasNext, returned, mounted, view>>

\* onClick={() => loadNext(2)} of the rendered button
onClick ==
    /\ mounted
    /\ view.button
    /\ loadNext(PageSize)
    /\ UNCHANGED <<server, edges, hasNext, returned, mounted, view>>

\* the request in flight is answered: the page joins the connection, hasNext
\* follows the answer, and the component renders again
FetchSuccess ==
    /\ mounted
    /\ isLoadingNext
    /\ LET page == ServerPage(inFlight[1].first, inFlight[1].after)
       IN  /\ edges' = Connection(edges, page.edges)
           /\ hasNext' = page.hasNextPage
           /\ returned' = returned + Len(page.edges)
           /\ view' = Render(edges', hasNext')
    /\ inFlight' = <<>>
    /\ UNCHANGED <<server, ignored, mounted>>

\* the view leaves the screen; this mount is over
Unmount ==
    /\ mounted
    /\ mounted' = FALSE
    /\ view' = Unrendered
    /\ UNCHANGED <<server, edges, hasNext, inFlight, returned, ignored>>

\* first render: the parent query has seeded the first page of $count edges
Init ==
    \E n \in 0..MaxSessions, count \in 1..MaxCount :
      \E cs \in InjectiveSeqs(1..MaxSessions, n) :
        /\ server = [i \in 1..n |-> Edge(cs[i])]
        /\ LET j == Min(count, n)
           IN  /\ edges = Connection(<<>>, SubSeq(server, 1, j))
               /\ hasNext = (j < n)
               /\ returned = j
        /\ inFlight = <<>>
        /\ ignored = 0
        /\ mounted = TRUE
        /\ view = Render(edges, hasNext)

Next == onClick \/ FetchSuccess \/ Unmount

Spec == Init /\ [][Next]_vars

\* every request is eventually answered, and the button is clicked whenever
\* it stays on screen
LiveSpec == Spec /\ WF_vars(onClick) /\ WF_vars(FetchSuccess)

TypeOK ==
    /\ Len(server) <= MaxSessions
    /\ Len(edges) <= Len(server)
    /\ hasNext \in BOOLEAN
    /\ mounted \in BOOLEAN
    /\ Len(inFlight) <= 1
    /\ ignored \in 0..MaxIgnored
    /\ returned \in Nat

\* ---- properties ---------------------------------------------------------
\* the step is a call of loadNext made from the view
LoadNextInvoked ==
    \/ inFlight' # inFlight /\ inFlight' # <<>>
    \/ ignored' # ignored

\* the keys of the rendered items
Keys == [i \in 1..Len(view.items) |-> view.items[i].key]

\* C1: while the view is mounted the load-more button is rendered only when
\* hasNext is true (hasNext false means no button), and every call of
\* loadNext made from the view happens in a state where hasNext is true.
C1_ControlOnlyWhenHasNext ==
    /\ [](mounted => (view.button => hasNext))
    /\ [](mounted /\ ~hasNext => ~view.button)
    /\ [][LoadNextInvoked => hasNext]_vars

\* C1 witness: a load-more has brought the last page, hasNext is false and
\* the mounted view shows three items and no button.
C1_Witness ==
    /\ mounted
    /\ ~hasNext
    /\ ~view.button
    /\ Len(view.items) = 3
    /\ Len(edges) > MaxCount

AllRendered ==
    /\ Len(view.items) = Len(server)
    /\ \A i \in 1..Len(server) :
          /\ view.items[i].key = server[i].cursor
          /\ view.items[i].session = server[i].node

====
